---------------------------- MODULE Spec2Model ----------------------------
(***************************************************************************)
(* pwdgen: a pattern-driven password generator.                            *)
(*                                                                         *)
(* The module models both variants of the program that the repository      *)
(* holds: the feature-complete one (src/unnamed/part_000: escapes, the     *)
(* entropy device) and the older one (src/pwdgen.c).  A pattern is a       *)
(* sequence of character codes; the C pointer ipt is the 0-based offset    *)
(* ipt - ipt_origin into the memory that holds the pattern.                *)
(***************************************************************************)
EXTENDS Integers, Sequences, FiniteSets, TLC

VARIABLES
    flags,      \* main: 1 when -p was given (FLAG_DEFINITION), else 0
    targ,       \* main: the value of -t, or -1 when -t was not given
    pattern,    \* the pattern text (optarg of -p), without its terminator
    prev,       \* the byte of memory just before the pattern
    tail,       \* the bytes of memory just after the pattern's terminator
    cs,         \* check: its locals (ipt, in, level), its result, its reads
    pc,         \* position of the program
    times,      \* main: the loop counter times
    seeds,      \* number of srand calls so far
    draws,      \* number of rand calls so far
    calls,      \* number of generate calls made by main so far
    stack,      \* generate: one frame of locals per active invocation
    gi,         \* generate: ipt of the innermost invocation
    ghi,        \* highest offset generate/randchar has read so far
    line,       \* stdout: the characters written since the last newline
    out,        \* stdout: the completed lines
    status      \* the exit status of the process, -1 while it runs

vars == <<flags, targ, pattern, prev, tail, cs, pc, times, seeds, draws,
          calls, stack, gi, ghi, line, out, status>>

(***************************************************************************)
(* Character codes the code names.                                         *)
(***************************************************************************)
NUL == 0
BANG == 33
LPAREN == 40
RPAREN == 41
STAR == 42
DASH == 45
ZERO == 48
NINE == 57
LBRACK == 91
BSLASH == 92
RBRACK == 93
TILDE == 126

Min(a, b) == IF a < b THEN a ELSE b
Max(a, b) == IF a > b THEN a ELSE b

(***************************************************************************)
(* Bounds of the model.                                                    *)
(***************************************************************************)
MaxLen == 5

(***************************************************************************)
(* The memory around the pattern: *(ipt_origin + i).  Offsets 0..Len-1     *)
(* hold the pattern, offset Len its terminator.  What lies before offset 0 *)
(* and after the terminator is not the pattern's: main hands check optarg, *)
(* which getopt points either into the middle of "-pPATTERN" (the byte     *)
(* before is 'p') or at the next argument (the byte before is the          *)
(* terminator of "-p").                                                    *)
(***************************************************************************)
Byte(p, pv, tl, i) ==
    IF i < 0 THEN pv
    ELSE IF i < Len(p) THEN p[i + 1]
    ELSE IF i = Len(p) THEN NUL
    ELSE IF i - Len(p) <= Len(tl) THEN tl[i - Len(p)]
    ELSE NUL

PrevBytes == {0, 112}

(***************************************************************************)
(* check (feature-complete variant).  s holds the locals: i = ipt -        *)
(* ipt_origin, in, level; ret is -1 while the loop runs and the returned   *)
(* value after; lo and hi are the lowest and highest offsets read.         *)
(***************************************************************************)
CheckStart == [i |-> 0, in |-> 0, level |-> 0, ret |-> -1, lo |-> 0, hi |-> 0]

\* *(ipt + k) for check, whose reads end at the terminator.
CheckAt(p, pv, s, k) == Byte(p, pv, <<>>, s.i + k)

\* ipt[-1] == '[' && ipt - ipt_origin >= 2 && ipt[-2] != '\\'
check_after_open(p, pv, s) ==
    /\ CheckAt(p, pv, s, -1) = LBRACK
    /\ s.i >= 2
    /\ CheckAt(p, pv, s, -2) # BSLASH

\* case '['
check_class_open(s) ==
    IF s.in # 0 THEN [s EXCEPT !.ret = 0]
    ELSE [s EXCEPT !.in = 1, !.i = @ + 1]

\* case ']'
check_class_close(p, pv, s) ==
    IF s.in = 0 \/ check_after_open(p, pv, s) THEN [s EXCEPT !.ret = 0]
    ELSE [s EXCEPT !.in = 0, !.i = @ + 1]

\* case '('
check_group_open(s) ==
    IF s.in # 0 THEN [s EXCEPT !.ret = 0]
    ELSE [s EXCEPT !.level = @ + 1, !.i = @ + 1]

\* case ')' without the test of level
check_group_close_unchecked(s) ==
    IF s.in # 0 THEN [s EXCEPT !.ret = 0]
    ELSE [s EXCEPT !.level = @ - 1, !.i = @ + 1]

\* case ')'
check_group_close(s) ==
    IF s.in # 0 \/ s.level <= 0 THEN [s EXCEPT !.ret = 0]
    ELSE [s EXCEPT !.level = @ - 1, !.i = @ + 1]

\* case '-': the first test reads ipt[-1] only inside a class, the second
\* one reads it wherever the '-' stands.
check_dash(p, pv, s) ==
    LET end == IF CheckAt(p, pv, s, 1) = BSLASH
               THEN CheckAt(p, pv, s, 2) ELSE CheckAt(p, pv, s, 1)
        endhi == IF CheckAt(p, pv, s, 1) = BSLASH THEN s.i + 2 ELSE s.i + 1
    IN  IF s.in # 0 /\ (check_after_open(p, pv, s)
                        \/ CheckAt(p, pv, s, 1) = RBRACK)
        THEN [s EXCEPT !.ret = 0, !.hi = Max(@, s.i + 1)]
        ELSE IF end < CheckAt(p, pv, s, -1)
        THEN [s EXCEPT !.ret = 0, !.lo = Min(@, s.i - 1), !.hi = Max(@, endhi)]
        ELSE [s EXCEPT !.i = @ + 1, !.lo = Min(@, s.i - 1), !.hi = Max(@, endhi)]

\* case '\\'
check_escape(p, pv, s) ==
    IF CheckAt(p, pv, s, 1) < BANG \/ CheckAt(p, pv, s, 1) > TILDE
    THEN [s EXCEPT !.ret = 0, !.hi = Max(@, s.i + 1)]
    ELSE [s EXCEPT !.i = @ + 2, !.hi = Max(@, s.i + 1)]

\* One evaluation of the loop condition and, when it holds, one iteration.
check_iter(p, pv, s) ==
    LET c == CheckAt(p, pv, s, 0)
        r == [s EXCEPT !.hi = Max(@, s.i)]
    IN  IF c = NUL THEN
            [r EXCEPT !.ret = IF s.in = 0 /\ s.level = 0 THEN 1 ELSE 0]
        ELSE IF c < BANG \/ c > TILDE THEN [r EXCEPT !.ret = 0]
        ELSE IF c = LBRACK THEN check_class_open(r)
        ELSE IF c = RBRACK THEN check_class_close(p, pv, r)
        ELSE IF c = LPAREN THEN check_group_open(r)
        ELSE IF c = RPAREN THEN check_group_close(r)
        ELSE IF c = DASH THEN check_dash(p, pv, r)
        ELSE IF c = BSLASH THEN check_escape(p, pv, r)
        ELSE [r EXCEPT !.i = @ + 1]

RECURSIVE check_from(_, _, _)
check_from(p, pv, s) ==
    IF s.ret # -1 THEN s ELSE check_from(p, pv, check_iter(p, pv, s))

\* The whole call check(ipt): the final locals, .ret the value returned.
check(p, pv) == check_from(p, pv, CheckStart)

(***************************************************************************)
(* The scan of check, one loop iteration per step.                         *)
(***************************************************************************)
Strings(chars, n) == UNION {[1..k -> chars] : k \in 0..n}

CheckChars == {LBRACK, RBRACK, LPAREN, RPAREN, DASH, BSLASH, 97, 98}

Idle ==
    /\ flags = 1 /\ targ = -1 /\ tail = <<>>
    /\ times = 0 /\ seeds = 0 /\ draws = 0 /\ calls = 0
    /\ stack = <<>> /\ gi = 0 /\ ghi = 0
    /\ line = <<>> /\ out = <<>> /\ status = -1

InitCheck ==
    /\ pattern \in Strings(CheckChars, MaxLen)
    /\ prev \in PrevBytes
    /\ cs = CheckStart
    /\ pc = "check"
    /\ Idle

CheckScan ==
    /\ pc = "check"
    /\ cs.ret = -1
    /\ Byte(pattern, prev, tail, cs.i) # NUL
    /\ cs' = check_iter(pattern, prev, cs)
    /\ UNCHANGED <<flags, targ, pattern, prev, tail, pc, times, seeds, draws,
                   calls, stack, gi, ghi, line, out, status>>

CheckReturn ==
    /\ pc = "check"
    /\ cs.ret = -1
    /\ Byte(pattern, prev, tail, cs.i) = NUL
    /\ cs' = check_iter(pattern, prev, cs)
    /\ UNCHANGED <<flags, targ, pattern, prev, tail, pc, times, seeds, draws,
                   calls, stack, gi, ghi, line, out, status>>

NextCheck == CheckScan \/ CheckReturn

SpecCheck == InitCheck /\ [][NextCheck]_vars


(***************************************************************************)
(* The repetition suffix "*N" that randchar and generate look for after a  *)
(* ']' or ')' at offset k, and strtol on its digits.  Callers hand strtol  *)
(* a first digit in 1..9, so it skips no blanks and reads no sign; val is  *)
(* the number and end the offset of the first character after the digits.  *)
(***************************************************************************)
has_suffix(p, pv, tl, k) ==
    /\ Byte(p, pv, tl, k + 1) = STAR
    /\ Byte(p, pv, tl, k + 2) > ZERO
    /\ Byte(p, pv, tl, k + 2) <= NINE

RECURSIVE strtol_from(_, _, _, _, _)
strtol_from(p, pv, tl, k, acc) ==
    LET c == Byte(p, pv, tl, k)
    IN  IF c >= ZERO /\ c <= NINE
        THEN strtol_from(p, pv, tl, k + 1, acc * 10 + (c - ZERO))
        ELSE [val |-> acc, end |-> k]

strtol(p, pv, tl, k) == strtol_from(p, pv, tl, k, 0)

\* The highest offset read by the test for a suffix after offset k and by
\* the strtol that follows it.
suffix_hi(p, pv, tl, k) ==
    IF has_suffix(p, pv, tl, k) THEN strtol(p, pv, tl, k + 2).end
    ELSE IF Byte(p, pv, tl, k + 1) = STAR THEN k + 2
    ELSE k + 1

(***************************************************************************)
(* strfind and randchar (feature-complete variant).                        *)
(***************************************************************************)
\* strfind(tar, lst, len): lst holds len characters and zeros after them;
\* the loop looks at lst[0..len], so a zero byte is always found.
strfind(tar, chars) ==
    \/ \E k \in 1..Len(chars) : chars[k] = tar
    \/ tar = NUL

\* chars[len++] = c unless strfind(c, chars, len).
add_char(chars, c) == IF strfind(c, chars) THEN chars ELSE Append(chars, c)

\* for (c = from; c < to; ++c) if (!strfind(c, chars, len)) chars[len++] = c;
\* c ascends, so the characters appended are those of from..to-1 that
\* strfind does not find in chars, in ascending order.
add_range(chars, from, to) ==
    IF from < to
    THEN chars \o SelectSeq([k \in 1..(to - from) |-> from + k - 1],
                            LAMBDA c : ~strfind(c, chars))
    ELSE chars

\* The first loop of randchar from offset k with the working set chars:
\* .chars is the working set built and .close the offset of the ']' reached.
RECURSIVE randchar_scan(_, _, _, _, _)
randchar_scan(p, pv, tl, k, chars) ==
    LET at(d) == Byte(p, pv, tl, k + d)
    IN  IF at(0) = RBRACK THEN [chars |-> chars, close |-> k]
        ELSE IF at(0) = DASH THEN
            LET end == IF at(1) = BSLASH THEN at(2) ELSE at(1)
            IN  randchar_scan(p, pv, tl, k + 1,
                              add_range(chars, at(-1) + 1, end))
        ELSE IF at(0) = BSLASH THEN
            randchar_scan(p, pv, tl, k + 2, add_char(chars, at(1)))
        ELSE
            randchar_scan(p, pv, tl, k + 1, add_char(chars, at(0)))

\* randchar(ipt) up to its draws, ipt = ipt_origin + k: the working set, the
\* number of draws c, and .next = the final ipt, so that the value returned
\* is next - k - 1.
randchar(p, pv, tl, k) ==
    LET sc == randchar_scan(p, pv, tl, k, <<>>)
        sfx == has_suffix(p, pv, tl, sc.close)
        num == strtol(p, pv, tl, sc.close + 2)
    IN  [chars |-> sc.chars,
         close |-> sc.close,
         c |-> IF sfx THEN num.val ELSE 1,
         next |-> IF sfx THEN num.end ELSE sc.close + 1]

(***************************************************************************)
(* generate (feature-complete variant), one loop iteration per step.  A    *)
(* frame holds the locals of one invocation: origin = ipt_origin, t, time  *)
(* and exit = ipt_exit (0 while it is the null pointer).  gi is ipt of the *)
(* innermost invocation; a caller's ipt is its callee's origin.            *)
(***************************************************************************)
Frame(origin) == [origin |-> origin, t |-> 0, time |-> 0, exit |-> 0]

Top == stack[Len(stack)]
Pop == SubSeq(stack, 1, Len(stack) - 1)
Cur == Byte(pattern, prev, tail, gi)

\* "return r" of the innermost invocation.  A nested one returns into
\* "ipt += generate(ipt); break;" and the loop's ++ipt of its caller, whose
\* ipt was the callee's ipt_origin; the outermost returns into main.
Return(r) ==
    IF Len(stack) = 1
    THEN /\ pc' = "newline"
         /\ stack' = <<>>
         /\ gi' = gi
    ELSE /\ pc' = pc
         /\ stack' = Pop
         /\ gi' = Top.origin + r + 1

\* default: putchar(*ipt)
GenLiteral ==
    /\ pc = "gen"
    /\ Cur \notin {NUL, LPAREN, RPAREN, LBRACK, BSLASH}
    /\ line' = Append(line, Cur)
    /\ gi' = gi + 1
    /\ ghi' = Max(ghi, gi)
    /\ UNCHANGED <<flags, targ, pattern, prev, tail, cs, pc, times, seeds,
                   draws, calls, stack, out, status>>

\* case '\\' with putchar(*ipt) before its ++ipt: the backslash is written
\* in place of the character it escapes
GenEscapeWritesBackslash ==
    /\ pc = "gen"
    /\ Cur = BSLASH
    /\ line' = Append(line, Cur)
    /\ gi' = gi + 2
    /\ ghi' = Max(ghi, gi + 1)
    /\ UNCHANGED <<flags, targ, pattern, prev, tail, cs, pc, times, seeds,
                   draws, calls, stack, out, status>>

\* case '\\': ++ipt, then the default case
GenEscape ==
    /\ pc = "gen"
    /\ Cur = BSLASH
    /\ line' = Append(line, Byte(pattern, prev, tail, gi + 1))
    /\ gi' = gi + 2
    /\ ghi' = Max(ghi, gi + 1)
    /\ UNCHANGED <<flags, targ, pattern, prev, tail, cs, pc, times, seeds,
                   draws, calls, stack, out, status>>

\* case '(': ++ipt; generate(ipt)
GenOpen ==
    /\ pc = "gen"
    /\ Cur = LPAREN
    /\ stack' = Append(stack, Frame(gi + 1))
    /\ gi' = gi + 1
    /\ ghi' = Max(ghi, gi)
    /\ UNCHANGED <<flags, targ, pattern, prev, tail, cs, pc, times, seeds,
                   draws, calls, line, out, status>>

\* case ')' with "t++ < time" for "++t < time": one execution too many
GenCloseOnceMore ==
    /\ pc = "gen"
    /\ Cur = RPAREN
    /\ LET sfx == has_suffix(pattern, prev, tail, gi)
           num == strtol(pattern, prev, tail, gi + 2)
           time == IF Top.time = 0 /\ sfx THEN num.val ELSE Top.time
           exit == IF Top.time = 0 /\ sfx THEN num.end ELSE Top.exit
       IN  /\ IF Top.time = 0 /\ ~sfx THEN Return(gi - Top.origin)
              ELSE IF Top.t < time
              THEN /\ stack' = [stack EXCEPT ![Len(stack)] =
                                  [Top EXCEPT !.t = @ + 1, !.time = time,
                                              !.exit = exit]]
                   /\ gi' = Top.origin
                   /\ pc' = pc
              ELSE Return(exit - Top.origin - 1)
           /\ ghi' = IF Top.time # 0 THEN Max(ghi, gi)
                     ELSE Max(ghi, suffix_hi(pattern, prev, tail, gi))
    /\ UNCHANGED <<flags, targ, pattern, prev, tail, cs, times, seeds, draws,
                   calls, line, out, status>>

\* case ')'
GenClose ==
    /\ pc = "gen"
    /\ Cur = RPAREN
    /\ LET sfx == has_suffix(pattern, prev, tail, gi)
           num == strtol(pattern, prev, tail, gi + 2)
           time == IF Top.time = 0 /\ sfx THEN num.val ELSE Top.time
           exit == IF Top.time = 0 /\ sfx THEN num.end ELSE Top.exit
       IN  /\ IF Top.time = 0 /\ ~sfx THEN Return(gi - Top.origin)
              ELSE IF Top.t + 1 < time
              THEN /\ stack' = [stack EXCEPT ![Len(stack)] =
                                  [Top EXCEPT !.t = @ + 1, !.time = time,
                                              !.exit = exit]]
                   /\ gi' = Top.origin
                   /\ pc' = pc
              ELSE Return(exit - Top.origin - 1)
           /\ ghi' = IF Top.time # 0 THEN Max(ghi, gi)
                     ELSE Max(ghi, suffix_hi(pattern, prev, tail, gi))
    /\ UNCHANGED <<flags, targ, pattern, prev, tail, cs, times, seeds, draws,
                   calls, line, out, status>>

\* case '[': ipt += randchar(++ipt).  The call, with its ++ipt, is made
\* before ipt is read for the addition, as the program's example output
\* shows.  With a working set of len = 0, rand() % len divides by zero:
\* the process is killed by SIGFPE (status 128 + 8), or the division
\* does not trap and putchar writes a byte that is not of the class (the
\* zero-filled chars array).
SIGFPE == 136

GenClass ==
    /\ pc = "gen"
    /\ Cur = LBRACK
    /\ LET rc == randchar(pattern, prev, tail, gi + 1)
           len == Len(rc.chars)
       IN  /\ ghi' = Max(ghi, suffix_hi(pattern, prev, tail, rc.close))
           /\ draws' = draws + rc.c
           /\ IF len = 0
              THEN \/ /\ pc' = "exit"
                      /\ status' = SIGFPE
                      /\ stack' = <<>>
                      /\ UNCHANGED <<gi, line>>
                   \/ /\ line' = line \o [k \in 1..rc.c |-> NUL]
                      /\ gi' = rc.next
                      /\ UNCHANGED <<pc, status, stack>>
              ELSE /\ \E d \in [1..rc.c -> 1..len] :
                          line' = line \o [k \in 1..rc.c |-> rc.chars[d[k]]]
                   /\ gi' = rc.next
                   /\ UNCHANGED <<pc, status, stack>>
    /\ UNCHANGED <<flags, targ, pattern, prev, tail, cs, times, seeds, calls,
                   out>>

\* the loop ends at the terminator: return ipt - ipt_origin
GenEnd ==
    /\ pc = "gen"
    /\ Cur = NUL
    /\ Return(gi - Top.origin)
    /\ ghi' = Max(ghi, gi)
    /\ UNCHANGED <<flags, targ, pattern, prev, tail, cs, times, seeds, draws,
                   calls, line, out, status>>

(***************************************************************************)
(* main and init_random (feature-complete variant).  status is what the    *)
(* parent sees: return -1 and return -2 are 255 and 254.                   *)
(***************************************************************************)
EXIT_FAILURE == 1

\* no -p: "Need password definition.", return -1
MainNoPattern ==
    /\ pc = "main"
    /\ flags = 0
    /\ pc' = "exit"
    /\ status' = 255
    /\ UNCHANGED <<flags, targ, pattern, prev, tail, cs, times, seeds, draws,
                   calls, stack, gi, ghi, line, out>>

\* times defaults to 1; check fails: "Password definition error.", return -2
MainReject ==
    /\ pc = "main"
    /\ flags # 0
    /\ times' = IF targ = -1 \/ targ = 0 THEN 1 ELSE targ
    /\ cs' = check(pattern, prev)
    /\ cs'.ret = 0
    /\ pc' = "exit"
    /\ status' = 254
    /\ UNCHANGED <<flags, targ, pattern, prev, tail, seeds, draws, calls,
                   stack, gi, ghi, line, out>>

\* times defaults to 1; check succeeds
MainAccept ==
    /\ pc = "main"
    /\ flags # 0
    /\ times' = IF targ = -1 \/ targ = 0 THEN 1 ELSE targ
    /\ cs' = check(pattern, prev)
    /\ cs'.ret # 0
    /\ pc' = "seed"
    /\ UNCHANGED <<flags, targ, pattern, prev, tail, seeds, draws, calls,
                   stack, gi, ghi, line, out, status>>

\* init_random: /dev/urandom opens, srand(seed)
InitRandom ==
    /\ pc = "seed"
    /\ seeds' = seeds + 1
    /\ pc' = "loop"
    /\ UNCHANGED <<flags, targ, pattern, prev, tail, cs, times, draws, calls,
                   stack, gi, ghi, line, out, status>>

\* init_random: /dev/urandom does not open, exit(EXIT_FAILURE)
InitRandomFail ==
    /\ pc = "seed"
    /\ pc' = "exit"
    /\ status' = EXIT_FAILURE
    /\ UNCHANGED <<flags, targ, pattern, prev, tail, cs, times, seeds, draws,
                   calls, stack, gi, ghi, line, out>>

\* while (times--) { ipt = ipt_origin; generate(ipt);
MainGenerate ==
    /\ pc = "loop"
    /\ times # 0
    /\ times' = times - 1
    /\ calls' = calls + 1
    /\ stack' = <<Frame(0)>>
    /\ gi' = 0
    /\ pc' = "gen"
    /\ UNCHANGED <<flags, targ, pattern, prev, tail, cs, seeds, draws, ghi,
                   line, out, status>>

\* putchar('\n'); }
MainNewline ==
    /\ pc = "newline"
    /\ out' = Append(out, line)
    /\ line' = <<>>
    /\ pc' = "loop"
    /\ UNCHANGED <<flags, targ, pattern, prev, tail, cs, times, seeds, draws,
                   calls, stack, gi, ghi, status>>

\* the loop ends: return 0
MainReturn ==
    /\ pc = "loop"
    /\ times = 0
    /\ pc' = "exit"
    /\ status' = 0
    /\ UNCHANGED <<flags, targ, pattern, prev, tail, cs, times, seeds, draws,
                   calls, stack, gi, ghi, line, out>>

(***************************************************************************)
(* The command lines of the model.                                         *)
(***************************************************************************)
MaxLit == 4
MaxBody == 3
MaxTokens == 5
MaxTimes == 2

RECURSIVE Flat(_)
Flat(ts) == IF ts = <<>> THEN <<>> ELSE Head(ts) \o Flat(Tail(ts))

\* every string over the structural characters, 'a' and 'b'
LitChars == {LBRACK, RBRACK, LPAREN, RPAREN, DASH, STAR, BSLASH, 97, 98}
LitPatterns == Strings(LitChars, MaxLit)

\* one class "[body]" with or without a suffix: body over a c - \ [ ]
ClassChars == {97, 99, DASH, BSLASH, LBRACK, RBRACK}
ClassSuffixes == {<<>>, <<STAR, 50>>, <<STAR, ZERO>>}
ClassPatterns ==
    {<<LBRACK>> \o b \o <<RBRACK>> \o x :
        b \in Strings(ClassChars, MaxBody), x \in ClassSuffixes}

\* groups: ( ) )*2 )*0 a [bc] x, and ( )*2 )*12 a
GroupTokens ==
    {<<LPAREN>>, <<RPAREN>>, <<RPAREN, STAR, 50>>, <<RPAREN, STAR, ZERO>>,
     <<97>>, <<LBRACK, 98, 99, RBRACK>>}
CountTokens ==
    {<<LPAREN>>, <<RPAREN, STAR, 50>>, <<RPAREN, STAR, 49, 50>>, <<97>>}
GroupPatterns ==
    {Flat(ts) : ts \in Strings(GroupTokens, MaxTokens)}
        \cup {Flat(ts) : ts \in Strings(CountTokens, MaxTokens)}

\* [a]*12, [aab]*3, [0-3], [a-a]*5, \[a\] and ([A-Ba-b][0-1])*3
ExamplePatterns ==
    {<<LBRACK, 97, RBRACK, STAR, 49, 50>>,
     <<LBRACK, 97, 97, 98, RBRACK, STAR, 51>>,
     <<LBRACK, 48, DASH, 51, RBRACK>>,
     <<LBRACK, 97, DASH, 97, RBRACK, STAR, 53>>,
     <<BSLASH, LBRACK, 97, BSLASH, RBRACK>>,
     <<LPAREN, LBRACK, 65, DASH, 66, 97, DASH, 98, RBRACK,
       LBRACK, 48, DASH, 49, RBRACK, RPAREN, STAR, 51>>}

\* the patterns asked for several times: abc, [ab], (a)*2, [], [b-a]
TimesPatterns ==
    {<<97, 98, 99>>, <<LBRACK, 97, 98, RBRACK>>,
     <<LPAREN, 97, RPAREN, STAR, 50>>, <<LBRACK, RBRACK>>,
     <<LBRACK, 98, DASH, 97, RBRACK>>}

Init ==
    /\ \/ /\ flags = 0
          /\ pattern = <<>>
          /\ prev = 0
          /\ targ \in {-1} \cup (0..MaxTimes)
       \/ /\ flags = 1
          /\ pattern \in TimesPatterns
          /\ prev \in PrevBytes
          /\ targ \in {-1} \cup (0..MaxTimes)
       \/ /\ flags = 1
          /\ pattern \in LitPatterns \cup ClassPatterns \cup GroupPatterns
                            \cup ExamplePatterns
          /\ prev \in PrevBytes
          /\ targ = -1
    /\ tail = <<>>
    /\ cs = CheckStart
    /\ pc = "main"
    /\ times = 0 /\ seeds = 0 /\ draws = 0 /\ calls = 0
    /\ stack = <<>> /\ gi = 0 /\ ghi = 0
    /\ line = <<>> /\ out = <<>> /\ status = -1

Next ==
    \/ MainNoPattern \/ MainReject \/ MainAccept
    \/ InitRandom \/ InitRandomFail
    \/ MainGenerate \/ MainNewline \/ MainReturn
    \/ GenLiteral \/ GenEscape \/ GenOpen \/ GenClose \/ GenClass \/ GenEnd

Spec == Init /\ [][Next]_vars

(***************************************************************************)
(* The older variant (src/pwdgen.c): no escapes, the seed taken from the   *)
(* clock.  Its strfind and its tests for a suffix are those above.         *)
(***************************************************************************)
OldCheckStart == [i |-> 0, in |-> 0, level |-> 0, ret |-> -1]

\* One evaluation of the loop condition of check and, when it holds, one
\* iteration.
old_check_iter(p, s) ==
    LET at(k) == Byte(p, 0, <<>>, s.i + k)
        c == at(0)
        reject == [s EXCEPT !.ret = 0]
        next == [s EXCEPT !.i = @ + 1]
    IN  IF c = NUL THEN
            [s EXCEPT !.ret = IF s.in = 0 /\ s.level = 0 THEN 1 ELSE 0]
        ELSE IF c < BANG \/ c > TILDE THEN reject
        ELSE IF c = LBRACK THEN
            IF s.in # 0 THEN reject ELSE [next EXCEPT !.in = 1]
        ELSE IF c = RBRACK THEN
            IF s.in # 1 \/ at(-1) = RBRACK THEN reject
            ELSE [next EXCEPT !.in = 0]
        ELSE IF c = LPAREN THEN
            IF s.in = 1 THEN reject ELSE [next EXCEPT !.level = @ + 1]
        ELSE IF c = RPAREN THEN
            IF s.in # 0 \/ s.level <= 0 THEN reject
            ELSE [next EXCEPT !.level = @ - 1]
        ELSE IF c = DASH THEN
            IF s.in # 0 /\ (at(-1) = LBRACK \/ at(1) = RBRACK
                            \/ at(1) < at(-1))
            THEN reject ELSE next
        ELSE next

RECURSIVE old_check_from(_, _)
old_check_from(p, s) ==
    IF s.ret # -1 THEN s ELSE old_check_from(p, old_check_iter(p, s))

\* The whole call check(ipt) of the older variant.
old_check(p) == old_check_from(p, OldCheckStart)

\* The first loop of the older randchar from offset k.
RECURSIVE old_randchar_scan(_, _, _, _)
old_randchar_scan(p, tl, k, chars) ==
    LET at(d) == Byte(p, 0, tl, k + d)
    IN  IF at(0) = RBRACK THEN [chars |-> chars, close |-> k]
        ELSE IF at(0) = DASH THEN
            old_randchar_scan(p, tl, k + 2,
                              add_range(chars, at(-1) + 1, at(1) + 1))
        ELSE
            old_randchar_scan(p, tl, k + 1, add_char(chars, at(0)))

\* The older randchar(ipt) up to its draws, ipt = ipt_origin + k.
old_randchar(p, tl, k) ==
    LET sc == old_randchar_scan(p, tl, k, <<>>)
        sfx == has_suffix(p, 0, tl, sc.close)
        num == strtol(p, 0, tl, sc.close + 2)
    IN  [chars |-> sc.chars,
         close |-> sc.close,
         c |-> IF sfx THEN num.val ELSE 1,
         next |-> IF sfx THEN num.end ELSE sc.close + 1]

\* times = 1; check fails: return -2
OldMainReject ==
    /\ pc = "main"
    /\ flags # 0
    /\ times' = IF targ = -1 \/ targ = 0 THEN 1 ELSE targ
    /\ cs' = old_check(pattern)
    /\ cs'.ret = 0
    /\ pc' = "exit"
    /\ status' = 254
    /\ UNCHANGED <<flags, targ, pattern, prev, tail, seeds, draws, calls,
                   stack, gi, ghi, line, out>>

\* times = 1; check succeeds; srand((int)time(NULL))
OldMainAccept ==
    /\ pc = "main"
    /\ flags # 0
    /\ times' = IF targ = -1 \/ targ = 0 THEN 1 ELSE targ
    /\ cs' = old_check(pattern)
    /\ cs'.ret # 0
    /\ seeds' = seeds + 1
    /\ pc' = "loop"
    /\ UNCHANGED <<flags, targ, pattern, prev, tail, draws, calls, stack, gi,
                   ghi, line, out, status>>

\* while (times--) { ipt = ipt_origin; generate(ipt);
OldMainGenerate ==
    /\ pc = "loop"
    /\ times # 0
    /\ times' = times - 1
    /\ calls' = calls + 1
    /\ stack' = <<Frame(0)>>
    /\ gi' = 0
    /\ pc' = "gen"
    /\ UNCHANGED <<flags, targ, pattern, prev, tail, cs, seeds, draws, ghi,
                   line, out, status>>

\* putchar('\n'); }
OldMainNewline ==
    /\ pc = "newline"
    /\ out' = Append(out, line)
    /\ line' = <<>>
    /\ pc' = "loop"
    /\ UNCHANGED <<flags, targ, pattern, prev, tail, cs, times, seeds, draws,
                   calls, stack, gi, ghi, status>>

\* the loop ends: return 0
OldMainReturn ==
    /\ pc = "loop"
    /\ times = 0
    /\ pc' = "exit"
    /\ status' = 0
    /\ UNCHANGED <<flags, targ, pattern, prev, tail, cs, times, seeds, draws,
                   calls, stack, gi, ghi, line, out>>

\* default: putchar(*ipt)
OldGenLiteral ==
    /\ pc = "gen"
    /\ Cur \notin {NUL, LPAREN, RPAREN, LBRACK}
    /\ line' = Append(line, Cur)
    /\ gi' = gi + 1
    /\ ghi' = Max(ghi, gi)
    /\ UNCHANGED <<flags, targ, pattern, prev, tail, cs, pc, times, seeds,
                   draws, calls, stack, out, status>>

\* case '(': ++ipt; generate(ipt)
OldGenOpen ==
    /\ pc = "gen"
    /\ Cur = LPAREN
    /\ stack' = Append(stack, Frame(gi + 1))
    /\ gi' = gi + 1
    /\ ghi' = Max(ghi, gi)
    /\ UNCHANGED <<flags, targ, pattern, prev, tail, cs, pc, times, seeds,
                   draws, calls, line, out, status>>

\* case ')': without a suffix, ++ipt; return ipt - ipt_origin
OldGenClose ==
    /\ pc = "gen"
    /\ Cur = RPAREN
    /\ LET sfx == has_suffix(pattern, prev, tail, gi)
           num == strtol(pattern, prev, tail, gi + 2)
           time == IF Top.time = 0 /\ sfx THEN num.val ELSE Top.time
           exit == IF Top.time = 0 /\ sfx THEN num.end ELSE Top.exit
       IN  /\ IF Top.time = 0 /\ ~sfx THEN Return(gi + 1 - Top.origin)
              ELSE IF Top.t + 1 < time
              THEN /\ stack' = [stack EXCEPT ![Len(stack)] =
                                  [Top EXCEPT !.t = @ + 1, !.time = time,
                                              !.exit = exit]]
                   /\ gi' = Top.origin
                   /\ pc' = pc
              ELSE Return(exit - Top.origin - 1)
           /\ ghi' = IF Top.time # 0 THEN Max(ghi, gi)
                     ELSE Max(ghi, suffix_hi(pattern, prev, tail, gi))
    /\ UNCHANGED <<flags, targ, pattern, prev, tail, cs, times, seeds, draws,
                   calls, line, out, status>>

\* case '[': ipt += randchar(++ipt), with the division by zero of an empty
\* working set as in the later variant
OldGenClass ==
    /\ pc = "gen"
    /\ Cur = LBRACK
    /\ LET rc == old_randchar(pattern, tail, gi + 1)
           len == Len(rc.chars)
       IN  /\ ghi' = Max(ghi, suffix_hi(pattern, prev, tail, rc.close))
           /\ draws' = draws + rc.c
           /\ IF len = 0
              THEN \/ /\ pc' = "exit"
                      /\ status' = SIGFPE
                      /\ stack' = <<>>
                      /\ UNCHANGED <<gi, line>>
                   \/ /\ line' = line \o [k \in 1..rc.c |-> NUL]
                      /\ gi' = rc.next
                      /\ UNCHANGED <<pc, status, stack>>
              ELSE /\ \E d \in [1..rc.c -> 1..len] :
                          line' = line \o [k \in 1..rc.c |-> rc.chars[d[k]]]
                   /\ gi' = rc.next
                   /\ UNCHANGED <<pc, status, stack>>
    /\ UNCHANGED <<flags, targ, pattern, prev, tail, cs, times, seeds, calls,
                   out>>

\* the loop ends at a zero byte: return ipt - ipt_origin
OldGenEnd ==
    /\ pc = "gen"
    /\ Cur = NUL
    /\ Return(gi - Top.origin)
    /\ ghi' = Max(ghi, gi)
    /\ UNCHANGED <<flags, targ, pattern, prev, tail, cs, times, seeds, draws,
                   calls, line, out, status>>

\* every string over ( ) [ ] - * 2 a, followed in memory by its terminator
\* and then by another zero byte or by an 'x' and a zero byte
OldChars == {LPAREN, RPAREN, LBRACK, RBRACK, DASH, STAR, 50, 97}

InitOld ==
    /\ flags = 1
    /\ targ = -1
    /\ pattern \in Strings(OldChars, MaxLen)
    /\ prev = 0
    /\ tail \in {<<>>, <<120>>}
    /\ cs = OldCheckStart
    /\ pc = "main"
    /\ times = 0 /\ seeds = 0 /\ draws = 0 /\ calls = 0
    /\ stack = <<>> /\ gi = 0 /\ ghi = 0
    /\ line = <<>> /\ out = <<>> /\ status = -1

NextOld ==
    \/ OldMainReject \/ OldMainAccept
    \/ OldMainGenerate \/ OldMainNewline \/ OldMainReturn
    \/ OldGenLiteral \/ OldGenOpen \/ OldGenClose \/ OldGenClass \/ OldGenEnd

SpecOld == InitOld /\ [][NextOld]_vars

(***************************************************************************)
(* What the properties speak of: the structure of a pattern, read off its  *)
(* text.  A character is escaped when it is the second one of a            *)
(* backslash pair, the pairs being formed from the left.  Positions are    *)
(* 1-based.                                                                *)
(***************************************************************************)
RECURSIVE Escaped(_, _)
Escaped(p, i) == i > 1 /\ p[i - 1] = BSLASH /\ ~Escaped(p, i - 1)

Plain(p, i, c) == p[i] = c /\ ~Escaped(p, i)

\* the number of unescaped c among the first k characters
Count(p, k, c) == Cardinality({i \in 1..k : Plain(p, i, c)})

Depth(p, k) == Count(p, k, LPAREN) - Count(p, k, RPAREN)
Open(p, k) == Count(p, k, LBRACK) - Count(p, k, RBRACK)

\* the first k characters are the start of a well nested pattern
PrefixNested(p, k) ==
    \A j \in 1..k :
        /\ Depth(p, j) >= 0
        /\ Open(p, j) \in {0, 1}
        /\ Plain(p, j, LPAREN) \/ Plain(p, j, RPAREN) => Open(p, j) = 0

WellNested(p) ==
    PrefixNested(p, Len(p)) /\ Depth(p, Len(p)) = 0 /\ Open(p, Len(p)) = 0

\* position i lies inside a class: after an unescaped '[' not yet closed
InClass(p, i) ==
    \E j \in 1..(i - 1) :
        Plain(p, j, LBRACK) /\ \A k \in (j + 1)..(i - 1) : ~Plain(p, k, RBRACK)

HasEmptyClass(p) ==
    \E i \in 1..(Len(p) - 1) : Plain(p, i, LBRACK) /\ p[i + 1] = RBRACK

HasEdgeDash(p) ==
    \E i \in 1..(Len(p) - 1) :
        \/ Plain(p, i, LBRACK) /\ p[i + 1] = DASH
        \/ Plain(p, i, DASH) /\ InClass(p, i) /\ p[i + 1] = RBRACK

Accepted == cs.ret = 1
Rejected == cs.ret = 0

(***************************************************************************)
(* C1: check rejects every pattern that holds an empty class, wherever it  *)
(* stands, so the working set of every class of an accepted pattern has    *)
(* len >= 1.  The code accepts "[]" at offset 0 and after "\\".            *)
(***************************************************************************)
C1_EmptyClassRejected ==
    Accepted =>
        /\ ~HasEmptyClass(pattern)
        /\ \A i \in 1..Len(pattern) :
               Plain(pattern, i, LBRACK) =>
                   Len(randchar(pattern, prev, <<>>, i).chars) >= 1

(***************************************************************************)
(* C2: check rejects every pattern with an unescaped '-' right after the   *)
(* '[' of a class or right before its ']'.  The code accepts "[-a]".       *)
(***************************************************************************)
C2_EdgeDashRejected == Accepted => ~HasEdgeDash(pattern)

(***************************************************************************)
(* C3 as stated: check accepts a pattern exactly when its unescaped        *)
(* brackets are well nested.  It is stated here of the patterns that hold  *)
(* no '-', where the code rejects only what it is meant to reject: a       *)
(* pattern that ends in a lone backslash is well nested and rejected.      *)
(***************************************************************************)
C3_AcceptsExactlyWellNested ==
    cs.ret # -1 /\ (\A i \in 1..Len(pattern) : pattern[i] # DASH) =>
        (Accepted <=> WellNested(pattern))

(***************************************************************************)
(* C3 as amended: check accepts a pattern only when its unescaped brackets *)
(* are well nested.  While the scan has not rejected, the part scanned is  *)
(* the start of a well nested pattern (no '[', '(' or ')' inside a class,  *)
(* no ']' outside one, no ')' without its '('), level is the number of     *)
(* groups open and in tells whether a class is open; check returns true    *)
(* only at the end of the pattern with in = 0 and level = 0.               *)
(***************************************************************************)
C3_AcceptsOnlyWellNested ==
    /\ ~Rejected =>
           /\ PrefixNested(pattern, cs.i)
           /\ cs.level = Depth(pattern, cs.i)
           /\ cs.in = Open(pattern, cs.i)
           /\ cs.level >= 0
    /\ Accepted =>
           /\ cs.i = Len(pattern) /\ cs.in = 0 /\ cs.level = 0
           /\ WellNested(pattern)

\* an accepted pattern with a class inside a group
C3_Witness ==
    /\ pc = "check"
    /\ Accepted
    /\ \E i \in 1..Len(pattern) : \E j \in 1..Len(pattern) :
           /\ i < j
           /\ Plain(pattern, i, LPAREN)
           /\ Plain(pattern, j, LBRACK)
           /\ Depth(pattern, j) = 1

(***************************************************************************)
(* C9: the verdict of check depends on the pattern alone: check reads no   *)
(* byte before the pattern or after its terminator, and the byte before    *)
(* the pattern does not change the verdict.  The code reads ipt[-1] for a  *)
(* '-' at offset 0.                                                        *)
(***************************************************************************)
C9_VerdictFromPatternAlone ==
    cs.ret # -1 =>
        /\ cs.lo >= 0
        /\ cs.hi <= Len(pattern)
        /\ \A b \in PrevBytes : check(pattern, b).ret = cs.ret

(***************************************************************************)
(* The output a pattern stands for, read off its structure: one set of     *)
(* characters per character written.  A group stands for its body as many *)
(* times as its suffix says, once without a suffix; a class for as many    *)
(* draws as its suffix says.  ExpandSeq(p, k) reads one sequence from      *)
(* offset k up to its ')' or the end of the pattern, at offset .next.      *)
(***************************************************************************)
RECURSIVE Repeat(_, _)
Repeat(q, n) == IF n <= 0 THEN <<>> ELSE q \o Repeat(q, n - 1)

\* what one draw of the class after offset k - 1 can write
DrawSet(p, k) ==
    LET chars == randchar(p, 0, <<>>, k).chars
    IN  IF chars = <<>> THEN {NUL} ELSE {chars[i] : i \in 1..Len(chars)}

RECURSIVE ExpandSeq(_, _)
ExpandSeq(p, k) ==
    LET c == Byte(p, 0, <<>>, k)
    IN  IF c = NUL \/ c = RPAREN THEN [slots |-> <<>>, next |-> k]
        ELSE IF c = BSLASH THEN
            LET rest == ExpandSeq(p, k + 2)
            IN  [slots |-> <<{Byte(p, 0, <<>>, k + 1)}>> \o rest.slots,
                 next |-> rest.next]
        ELSE IF c = LBRACK THEN
            LET rc == randchar(p, 0, <<>>, k + 1)
                rest == ExpandSeq(p, rc.next)
            IN  [slots |-> Repeat(<<DrawSet(p, k + 1)>>, rc.c) \o rest.slots,
                 next |-> rest.next]
        ELSE IF c = LPAREN THEN
            LET body == ExpandSeq(p, k + 1)
                sfx == has_suffix(p, 0, <<>>, body.next)
                num == strtol(p, 0, <<>>, body.next + 2)
                rest == ExpandSeq(p, IF sfx THEN num.end ELSE body.next + 1)
            IN  [slots |-> Repeat(body.slots, IF sfx THEN num.val ELSE 1)
                               \o rest.slots,
                 next |-> rest.next]
        ELSE
            LET rest == ExpandSeq(p, k + 1)
            IN  [slots |-> <<{c}>> \o rest.slots, next |-> rest.next]

Expand(p) == ExpandSeq(p, 0).slots

Matches(l, slots) ==
    Len(l) = Len(slots) /\ \A k \in 1..Len(l) : l[k] \in slots[k]

\* the pattern without its backslash pairs' backslashes
RECURSIVE UnescapeFrom(_, _)
UnescapeFrom(p, i) ==
    IF i > Len(p) THEN <<>>
    ELSE IF p[i] = BSLASH /\ ~Escaped(p, i) THEN UnescapeFrom(p, i + 1)
    ELSE <<p[i]>> \o UnescapeFrom(p, i + 1)

Unescape(p) == UnescapeFrom(p, 1)

Structural == {LBRACK, RBRACK, LPAREN, RPAREN, DASH, STAR, BSLASH}

\* every structural character is part of a backslash pair
EscapeOnly(p) ==
    \A i \in 1..Len(p) :
        p[i] \in Structural =>
            Escaped(p, i) \/ (p[i] = BSLASH /\ i < Len(p))

\* the last character is a backslash that pairs with nothing
EndsInLoneBackslash(p) ==
    Len(p) > 0 /\ Plain(p, Len(p), BSLASH)

\* made of printable characters other than [ ] ( ) and backslash
PlainText(p) ==
    \A i \in 1..Len(p) :
        /\ p[i] >= BANG /\ p[i] <= TILDE
        /\ p[i] \notin {LBRACK, RBRACK, LPAREN, RPAREN, BSLASH}

Checked == flags = 1 /\ pc # "main"
Generated == pc = "newline"
Requested == IF targ = -1 \/ targ = 0 THEN 1 ELSE targ

(***************************************************************************)
(* C4: a pattern of printable characters other than [ ] ( ) and backslash, *)
(* with '-' anywhere in it, is accepted by check and written as it is by   *)
(* generate.  The code rejects "b-a" and "a-".                             *)
(***************************************************************************)
C4_DashOutsideClassIsLiteral ==
    flags = 1 /\ PlainText(pattern) =>
        /\ Checked => Accepted
        /\ Generated => line = pattern

(***************************************************************************)
(* C5: a pattern whose structural characters all stand in backslash pairs  *)
(* is accepted by check, and generate writes it with each pair replaced by *)
(* its second character; a pattern that ends in a backslash that pairs     *)
(* with nothing is rejected.                                               *)
(***************************************************************************)
C5_EscapedIsLiteral ==
    /\ EscapeOnly(pattern) =>
           /\ Checked => Accepted
           /\ Generated => line = Unescape(pattern)
    /\ EndsInLoneBackslash(pattern) /\ Checked => Rejected

\* "\[a\]" has been written as "[a]"
C5_Witness ==
    /\ Generated
    /\ pattern = <<BSLASH, LBRACK, 97, BSLASH, RBRACK>>
    /\ line = <<LBRACK, 97, RBRACK>>

(***************************************************************************)
(* C6: when generate has run over an accepted pattern, it has written what *)
(* the pattern stands for: each group body N times for a suffix "*N" with  *)
(* first digit 1..9 and once otherwise ("*0" is written as it is), a       *)
(* nested group anew in every repetition of the group around it, what      *)
(* follows a group once.  "([A-Ba-b][0-1])*3" is written as six            *)
(* characters, letter and digit in turn.                                   *)
(***************************************************************************)
C6_GroupsRepeat ==
    Generated =>
        /\ Matches(line, Expand(pattern))
        /\ pattern = <<LPAREN, LBRACK, 65, DASH, 66, 97, DASH, 98, RBRACK,
                       LBRACK, 48, DASH, 49, RBRACK, RPAREN, STAR, 51>> =>
               /\ Len(line) = 6
               /\ \A k \in {1, 3, 5} : line[k] \in {65, 66, 97, 98}
               /\ \A k \in {2, 4, 6} : line[k] \in {48, 49}

\* "(([bc])*2)*2" has been written: four draws
C6_Witness ==
    /\ Generated
    /\ pattern = <<LPAREN, LPAREN, LBRACK, 98, 99, RBRACK, RPAREN, STAR, 50,
                   RPAREN, STAR, 50>>
    /\ Len(line) = 4
    /\ line[1] # line[4]

(***************************************************************************)
(* The set a class stands for, read off its text.  The class opens at the  *)
(* unescaped '[' at position i and closes at the next unescaped ']'; its   *)
(* characters are those of its body that are escaped or are neither a      *)
(* backslash nor a '-'; an unescaped '-' with a character before it in the *)
(* body stands for all codes from that character to the one after it.      *)
(***************************************************************************)
ClassEnd(p, i) ==
    CHOOSE j \in (i + 1)..Len(p) :
        Plain(p, j, RBRACK) /\ \A k \in (i + 1)..(j - 1) : ~Plain(p, k, RBRACK)

ClassSingles(p, i) ==
    {p[k] : k \in {k \in (i + 1)..(ClassEnd(p, i) - 1) :
                       Escaped(p, k) \/ p[k] \notin {BSLASH, DASH}}}

ClassRanges(p, i) ==
    UNION {p[k - 1]..(IF p[k + 1] = BSLASH THEN p[k + 2] ELSE p[k + 1]) :
               k \in {k \in (i + 2)..(ClassEnd(p, i) - 1) : Plain(p, k, DASH)}}

ClassSet(p, i) == ClassSingles(p, i) \cup ClassRanges(p, i)

\* the number of draws the suffix after the class asks for
ClassDraws(p, i) ==
    IF has_suffix(p, 0, <<>>, ClassEnd(p, i) - 1)
    THEN strtol(p, 0, <<>>, ClassEnd(p, i) + 1).val
    ELSE 1

SeqSet(q) == {q[k] : k \in 1..Len(q)}

(***************************************************************************)
(* C7: for every class of an accepted pattern the working set of randchar  *)
(* has no duplicates and is the set the class stands for, and randchar     *)
(* writes exactly N characters of that set.  The code accepts "[]", whose  *)
(* set is empty (C1), and "[-a]" (C2).                                     *)
(***************************************************************************)
C7_ClassDrawsFromItsSet ==
    Checked /\ Accepted =>
        /\ status # SIGFPE
        /\ \A i \in 1..Len(pattern) :
               Plain(pattern, i, LBRACK) =>
                   LET chars == randchar(pattern, prev, <<>>, i).chars
                   IN  /\ Cardinality(SeqSet(chars)) = Len(chars)
                       /\ SeqSet(chars) = ClassSet(pattern, i)
        /\ Generated /\ Len(pattern) > 0 /\ pattern[1] = LBRACK =>
               /\ Len(line) >= ClassDraws(pattern, 1)
               /\ \A k \in 1..ClassDraws(pattern, 1) :
                      line[k] \in ClassSet(pattern, 1)
               /\ randchar(pattern, prev, <<>>, 1).next = Len(pattern) =>
                      Len(line) = ClassDraws(pattern, 1)

(***************************************************************************)
(* C8: without -p the program ends with one non-zero status and never      *)
(* calls generate; with a rejected pattern it ends with another non-zero   *)
(* status, never calls generate and never seeds or draws; with an accepted *)
(* pattern it seeds once before the first draw, calls generate from the    *)
(* start of the pattern once per output asked for (once without -t or with *)
(* -t 0), writes a newline after each and ends with status 0.  An entropy  *)
(* device that does not open (status EXIT_FAILURE before any output) is    *)
(* not held against the claim here; the death of the process on the        *)
(* accepted pattern "[]" (C1) is.                                          *)
(***************************************************************************)
C8_DriverContract ==
    /\ flags = 0 /\ pc = "exit" => status = 255 /\ calls = 0
    /\ flags = 1 /\ Rejected /\ pc = "exit" =>
           status = 254 /\ calls = 0 /\ seeds = 0 /\ draws = 0
    /\ calls > 0 => flags = 1 /\ Accepted
    /\ seeds <= 1
    /\ draws > 0 => seeds = 1
    /\ pc = "gen" => stack[1].origin = 0
    /\ pc = "newline" => calls = Len(out) + 1
    /\ flags = 1 /\ Accepted /\ pc = "exit" =>
           \/ status = EXIT_FAILURE /\ calls = 0 /\ draws = 0 /\ out = <<>>
           \/ /\ status = 0
              /\ seeds = 1
              /\ calls = Requested
              /\ Len(out) = Requested
              /\ line = <<>>

(***************************************************************************)
(* C10: in the older variant a group without a suffix hands control back   *)
(* at the character after its ')': of a pattern without classes and        *)
(* without suffixes every character but the parentheses is written once,   *)
(* in order, and generate reads nothing after the terminator.  The code    *)
(* skips the character after the ')': "(a)a" is written as "a", and after  *)
(* "(a)" the scan goes on behind the terminator.                           *)
(***************************************************************************)
RECURSIVE WithoutParens(_)
WithoutParens(p) ==
    IF p = <<>> THEN <<>>
    ELSE IF Head(p) \in {LPAREN, RPAREN} THEN WithoutParens(Tail(p))
    ELSE <<Head(p)>> \o WithoutParens(Tail(p))

C10_OldGroupResumesAfterParen ==
    /\ (\A i \in 1..Len(pattern) :
            /\ pattern[i] # LBRACK
            /\ pattern[i] = RPAREN => ~has_suffix(pattern, 0, <<>>, i - 1))
       /\ Generated
       => line = WithoutParens(pattern)
    /\ ghi <= Len(pattern)

=============================================================================
